---- MODULE Spec2Model ----
(***************************************************************************)
(* State-machine model of the Agenda-Web event store                       *)
(* (src/src/store/eventStore.ts) on top of the IndexedDB record store      *)
(* (EventDatabase, src/unnamed/part_001).                                  *)
(*                                                                         *)
(* Execution model.  JavaScript runs one task at a time; an async function *)
(* runs without interruption until it awaits a Record Store request.  One  *)
(* action of the model is therefore one macrotask: a call of a store       *)
(* operation, the fire of a host timer, or the completion of one Record    *)
(* Store request together with the whole continuation of the operation     *)
(* that awaited it (up to its next Record Store request).                  *)
(*                                                                         *)
(* Time.  Instants are counted in units of MS_PER_UNIT milliseconds since  *)
(* the model checker's integers are 32 bits wide; every instant of the     *)
(* model is a multiple of the unit, so the arithmetic (the 32-bit          *)
(* conversion of a timer delay included) is exact.                         *)
(***************************************************************************)
EXTENDS Integers, Sequences, FiniteSets, TLC

\* ------------------------------------------------------------------ bounds
MaxOps == 3
MaxTasks == 2
MaxId == 2
MaxTicks == 2
MaxFaults == 1

\* --------------------------------------------------------------- constants
MS_PER_UNIT == 4
Ms(x) == x \div MS_PER_UNIT

CACHE_DURATION == 5000
DAY_MS == 24 * 60 * 60 * 1000
MINUTE_MS == 60 * 1000
\* the host timer takes its delay as a signed 32-bit number of milliseconds
TIMER_WRAP == 2^30
TIMER_HALF == 2^29

Null == 0 - 1
NoTimer == 0
AllKey == 0 - 2

NoError == "null"
ErrNotInit == "DB nao esta inicializado"
ErrNotFound == "Evento nao encontrado"
ErrPriority == "Prioridade invalida"
ErrStorage == "request.error"

\* the clock advances in steps of half the cache duration
ClockStep == Ms(CACHE_DURATION) \div 2
NearDate == 1
FarDate == 26
\* the clock starts one step before the near date's midnight
StartTime == NearDate * Ms(DAY_MS) - ClockStep

Dates == {NearDate, FarDate}
CacheKeys == {AllKey} \cup Dates
Ids == 1..MaxId
Slots == 1..MaxTasks

\* ------------------------------------------------------------ Record Store
\* parseISO(`${date}T${time}`).getTime(), date a day number, time in minutes
DateTime(e) == e.date * Ms(DAY_MS) + e.time * Ms(MINUTE_MS)

isBefore(a, b) == a < b

\* faulty variant: every positive priority passes
validatePriority_Positive(p) == p >= 1

validatePriority(p) == p \in {1, 2, 3}

\* faulty variant: the comparator looks at the date alone
ByDateTime_DateOnly(a, b) ==
    \/ a.date < b.date
    \/ a.date = b.date /\ a.id < b.id

\* a.date.localeCompare(b.date) || a.time.localeCompare(b.time), the ties
\* left in key order by the stable sort
ByDateTime(a, b) ==
    \/ a.date < b.date
    \/ a.date = b.date /\ a.time < b.time
    \/ a.date = b.date /\ a.time = b.time /\ a.id < b.id

ByTime(a, b) ==
    \/ a.time < b.time
    \/ a.time = b.time /\ a.id < b.id

\* Array.prototype.sort with the comparator of getAllEvents (full = TRUE)
\* or of getEventsByDate (full = FALSE)
Less(full, a, b) == IF full THEN ByDateTime(a, b) ELSE ByTime(a, b)

RECURSIVE SortBy(_, _)
SortBy(S, full) ==
    IF S = {} THEN << >>
    ELSE LET m == CHOOSE x \in S : \A y \in S \ {x} : Less(full, x, y)
         IN  << m >> \o SortBy(S \ {m}, full)

\* faulty variant: the records are returned in key order, the sort left out
getAllEvents_KeyOrder(recs) ==
    CHOOSE seq \in [1..Cardinality(recs) -> recs] :
        \A i \in DOMAIN seq : \A j \in DOMAIN seq : i < j => seq[i].id < seq[j].id

getAllEvents(recs) == SortBy(recs, TRUE)

getEventsByDate(recs, date) == SortBy({r \in recs : r.date = date}, FALSE)

\* faulty variant: a new record is born with its modification stamp set
NewRecord_Stamped(ev, id, t) ==
    [id |-> id, title |-> ev.title, description |-> ev.description,
     date |-> ev.date, time |-> ev.time, priority |-> ev.priority,
     completed |-> FALSE, created_at |-> t, updated_at |-> t]

\* store.add of {...event, completed:false, created_at, updated_at:null}
\* under the key the generator hands out
NewRecord(ev, id, t) ==
    [id |-> id, title |-> ev.title, description |-> ev.description,
     date |-> ev.date, time |-> ev.time, priority |-> ev.priority,
     completed |-> FALSE, created_at |-> t, updated_at |-> Null]

dbAddEvent(recs, id, ev, t) == recs \cup {NewRecord(ev, id, t)}

HasRecord(recs, id) == \E r \in recs : r.id = id
RecordOf(recs, id) == CHOOSE r \in recs : r.id = id

\* faulty variant: every update counts as a change
needsUpdate_Always(event, updates) == TRUE

needsUpdate(event, updates) ==
    \E k \in DOMAIN updates : event[k] # updates[k]

\* one field of {...event, ...updates}
Field(event, updates, k) ==
    IF k \in DOMAIN updates THEN updates[k] ELSE event[k]

\* faulty variant: completed is reset unless the update names it
Merge_Uncomplete(event, updates, t) ==
    [id |-> event.id,
     title |-> Field(event, updates, "title"),
     description |-> Field(event, updates, "description"),
     date |-> Field(event, updates, "date"),
     time |-> Field(event, updates, "time"),
     priority |-> Field(event, updates, "priority"),
     completed |-> IF "completed" \in DOMAIN updates THEN updates.completed
                   ELSE FALSE,
     created_at |-> event.created_at,
     updated_at |-> t]

\* faulty variant: the merged record is stored under the next key
Merge_Rekey(event, updates, t) ==
    [id |-> event.id + 1,
     title |-> Field(event, updates, "title"),
     description |-> Field(event, updates, "description"),
     date |-> Field(event, updates, "date"),
     time |-> Field(event, updates, "time"),
     priority |-> Field(event, updates, "priority"),
     completed |-> Field(event, updates, "completed"),
     created_at |-> event.created_at,
     updated_at |-> t]

\* {...event, ...updates, updated_at: new Date().toISOString()}
Merge(event, updates, t) ==
    [id |-> event.id,
     title |-> Field(event, updates, "title"),
     description |-> Field(event, updates, "description"),
     date |-> Field(event, updates, "date"),
     time |-> Field(event, updates, "time"),
     priority |-> Field(event, updates, "priority"),
     completed |-> Field(event, updates, "completed"),
     created_at |-> event.created_at,
     updated_at |-> t]

\* faulty variant: an update of a missing id resolves without a word
dbUpdateEvent_Silent(recs, id, updates, t) ==
    IF ~HasRecord(recs, id) THEN [ok |-> TRUE, msg |-> NoError, recs |-> recs]
    ELSE LET event == RecordOf(recs, id)
         IN  IF needsUpdate(event, updates)
             THEN [ok |-> TRUE, msg |-> NoError,
                   recs |-> (recs \ {event}) \cup {Merge(event, updates, t)}]
             ELSE [ok |-> TRUE, msg |-> NoError, recs |-> recs]

\* the read-modify-write transaction of EventDatabase.updateEvent
dbUpdateEvent(recs, id, updates, t) ==
    IF ~HasRecord(recs, id) THEN [ok |-> FALSE, msg |-> ErrNotFound, recs |-> recs]
    ELSE LET event == RecordOf(recs, id)
         IN  IF needsUpdate(event, updates)
             THEN [ok |-> TRUE, msg |-> NoError,
                   recs |-> (recs \ {event}) \cup {Merge(event, updates, t)}]
             ELSE [ok |-> TRUE, msg |-> NoError, recs |-> recs]

\* store.delete(id) succeeds whether or not the key exists
dbDeleteEvent(recs, id) == {r \in recs : r.id # id}

\* ------------------------------------------------------------------- state
VARIABLES
    isDBReady, events, loading, error, selectedDate,   \* the published snapshot
    cache,             \* cache key -> CacheEntry
    scheduledChecks,   \* event id -> handle of the registered timer
    timers,            \* the host's live (armed, not fired, not cleared) timers
    records, nextId,   \* the object store and its key generator
    queue,             \* Record Store requests issued and not yet completed
    tasks,             \* the suspended async operations
    now, ticks,        \* the wall clock
    nops, nfaults,     \* operations called and storage faults raised so far
    last               \* what the last step did (history, read by the properties)

vars == << isDBReady, events, loading, error, selectedDate, cache,
           scheduledChecks, timers, records, nextId, queue, tasks,
           now, ticks, nops, nfaults, last >>

NoEntry == [timestamp |-> Null, events |-> << >>]
EmptyCache == [k \in CacheKeys |-> NoEntry]
NoChecks == [i \in Ids |-> NoTimer]
NoArg == [date |-> Null]

IdleTask ==
    [kind |-> "idle", pc |-> "idle", id |-> 0, key |-> AllKey, path |-> "none",
     evs |-> << >>, flipped |-> {}, at |-> Null, wait |-> 0, armedFor |-> Null,
     cancelled |-> FALSE]

NoLast ==
    [op |-> "init", kind |-> "none", awaited |-> "none", id |-> 0,
     ok |-> TRUE, msg |-> NoError, notReady |-> FALSE,
     path |-> "none", query |-> FALSE,
     pub |-> FALSE, pubAt |-> Null, flipped |-> {},
     err |-> NoError, rej |-> NoError, same |-> TRUE, evSame |-> TRUE,
     warm |-> FALSE, wrote |-> FALSE, armedFor |-> Null, wasReady |-> FALSE,
     snapSame |-> TRUE, changed |-> {}, armed |-> {}, stole |-> FALSE,
     rec |-> FALSE, recIn |-> << >>, recOut |-> << >>, recIds |-> << >>,
     recQueue |-> << >>, recHit |-> FALSE, cancelled |-> FALSE]

Req(owner, op, id, arg) == [owner |-> owner, op |-> op, id |-> id, arg |-> arg]

\* the mutable state of the store closure, threaded through the handlers
St(opname) ==
    [isDBReady |-> isDBReady, events |-> events, loading |-> loading,
     error |-> error, selectedDate |-> selectedDate, cache |-> cache,
     checks |-> scheduledChecks, timers |-> timers, queue |-> queue,
     tasks |-> tasks, last |-> [NoLast EXCEPT !.op = opname]]

\* ------------------------------------------------------------------- cache
\* faulty variant: the entry is still served at the instant its age reaches the TTL
isCacheValid_Inclusive(st, key) ==
    /\ st.cache[key].timestamp # Null
    /\ now - st.cache[key].timestamp <= Ms(CACHE_DURATION)

isCacheValid(st, key) ==
    /\ st.cache[key].timestamp # Null
    /\ now - st.cache[key].timestamp < Ms(CACHE_DURATION)

updateCache(st, key, evs) ==
    [st EXCEPT !.cache[key] = [timestamp |-> now, events |-> evs]]

\* faulty variant: the entries survive a mutation
invalidateCache_Keep(st) == st

\* faulty variant: only the entry of the current view is removed
invalidateCache_Current(st) ==
    [st EXCEPT !.cache[IF st.selectedDate # Null THEN st.selectedDate
                       ELSE AllKey] = NoEntry]

invalidateCache(st) == [st EXCEPT !.cache = EmptyCache]

\* ------------------------------------------------------------------ timers
\* the conversion of the delay argument of setTimeout to a signed 32-bit
\* number of milliseconds; a negative delay counts as 0
ToInt32(d) == ((d + TIMER_HALF) % TIMER_WRAP) - TIMER_HALF

TimerDelay(d) == IF ToInt32(d) < 0 THEN 0 ELSE ToInt32(d)

FreshHandle(st) ==
    LET used == {tm.h : tm \in st.timers} \cup {st.checks[i] : i \in Ids}
    IN  CHOOSE h \in 1..(Cardinality(used) + 1) :
            /\ h \notin used
            /\ \A g \in 1..(h - 1) : g \in used

clearTimeout(st, h) == [st EXCEPT !.timers = {tm \in @ : tm.h # h}]

\* if (scheduledChecks.has(id)) { clearTimeout(...); scheduledChecks.delete(id) }
CancelCheck(st, id) ==
    IF st.checks[id] # NoTimer
    THEN [clearTimeout(st, st.checks[id]) EXCEPT !.checks[id] = NoTimer]
    ELSE st

scheduleEventCheck(st, event) ==
    IF event.completed THEN st
    ELSE IF isBefore(DateTime(event), now) THEN st
    ELSE LET s1 == CancelCheck(st, event.id)
             h == FreshHandle(s1)
             tm == [h |-> h, id |-> event.id,
                    due |-> now + TimerDelay(DateTime(event) - now),
                    at |-> DateTime(event)]
         IN  [s1 EXCEPT !.timers = @ \cup {tm}, !.checks[event.id] = h,
                        !.last.armed = @ \cup {event.id}]

RECURSIVE ScheduleAll(_, _, _)
ScheduleAll(st, evs, i) ==
    IF i > Len(evs) THEN st
    ELSE ScheduleAll(scheduleEventCheck(st, evs[i]), evs, i + 1)

\* cleanup()
cleanup(st) == [st EXCEPT !.timers = {tm \in @ : \A i \in Ids : st.checks[i] # tm.h},
                          !.checks = NoChecks]

\* ----------------------------------------------------- publication helpers
Finish(st, t) == [st EXCEPT !.tasks[t] = IdleTask]

\* set({ events, loading: false })
Publish(st, evs, at, flipped) ==
    [st EXCEPT !.events = evs, !.loading = FALSE,
               !.last.pub = TRUE, !.last.pubAt = at, !.last.flipped = flipped]

\* faulty variant: the catch publishes the message and leaves loading set
SetError_KeepLoading(st, msg) ==
    [st EXCEPT !.error = msg, !.last.err = msg]

\* faulty variant: the catch also takes the store back to not ready
SetError_NotReady(st, msg) ==
    [st EXCEPT !.error = msg, !.loading = FALSE, !.isDBReady = FALSE,
               !.last.err = msg]

\* set({ error: (error as Error).message, loading: false })
SetError(st, msg) ==
    [st EXCEPT !.error = msg, !.loading = FALSE, !.last.err = msg]

\* a rejection nobody catches leaves the store
Escape(st, msg) == [st EXCEPT !.last.rej = msg]

\* requests of a task that no longer awaits them complete unobserved
Orphan(st, t) ==
    [st EXCEPT !.queue = [i \in DOMAIN @ |->
                            IF @[i].owner = t THEN [@[i] EXCEPT !.owner = 0]
                            ELSE @[i]]]

\* ----------------------------------------------------------- refreshEvents
\* what runs in the caller once refreshEvents has resolved: the timer
\* callback unregisters event.id, every other caller is done
RefreshReturn(st, t) ==
    IF st.tasks[t].kind = "timer"
    THEN LET h == st.checks[st.tasks[t].id]
         IN  Finish([st EXCEPT !.checks[st.tasks[t].id] = NoTimer,
                               !.last.stole = \E tm \in st.timers : tm.h = h], t)
    ELSE Finish(st, t)

\* the callers that await refreshEvents inside a try/catch
Catches(kind) ==
    kind \in {"init", "fetch", "fetchByDate", "add", "update", "delete", "mark"}

\* what runs in the caller once refreshEvents has rejected
RefreshReject(st, t, msg) ==
    IF Catches(st.tasks[t].kind)
    THEN Finish(SetError(st, msg), t)
    ELSE Finish(Escape(st, msg), t)

\* faulty variant: the cache key is computed again when the result is stored
AfterReconcile_LateKey(st, t) ==
    LET tk == st.tasks[t]
        key == IF st.selectedDate # Null THEN st.selectedDate ELSE AllKey
    IN  IF tk.path = "hit"
        THEN RefreshReturn(Publish(st, tk.evs, tk.at, tk.flipped), t)
        ELSE RefreshReturn(
                 Publish(updateCache(ScheduleAll(st, tk.evs, 1), key, tk.evs),
                         tk.evs, tk.at, tk.flipped), t)

\* the rest of refreshEvents after checkAndUpdatePastEvents has resolved
AfterReconcile(st, t) ==
    LET tk == st.tasks[t]
    IN  IF tk.path = "hit"
        THEN RefreshReturn(Publish(st, tk.evs, tk.at, tk.flipped), t)
        ELSE RefreshReturn(
                 Publish(updateCache(ScheduleAll(st, tk.evs, 1), tk.key, tk.evs),
                         tk.evs, tk.at, tk.flipped), t)

\* a failure inside refreshEvents: caught by its try on the cache-miss path,
\* a rejection of refreshEvents on the cache-hit path
RefreshFail(st, t, msg) ==
    IF st.tasks[t].path = "hit"
    THEN RefreshReject(st, t, msg)
    ELSE RefreshReturn(SetError(st, msg), t)

\* faulty variant: an event whose date and time equal now counts as past
IsPast_Inclusive(event) == ~event.completed /\ DateTime(event) <= now

\* !event.completed && isBefore(eventDateTime, now)
IsPast(event) == ~event.completed /\ isBefore(DateTime(event), now)

\* faulty variant: the pass returns its input, past events left uncompleted
Reconciled_NoFlip(evs) == evs

\* events.map(...) of checkAndUpdatePastEvents
Reconciled(evs) ==
    [i \in DOMAIN evs |->
        IF IsPast(evs[i]) THEN [evs[i] EXCEPT !.completed = TRUE] ELSE evs[i]]

\* eventsToUpdate, in list order
RECURSIVE EventsToUpdate(_, _)
EventsToUpdate(evs, i) ==
    IF i > Len(evs) THEN << >>
    ELSE IF IsPast(evs[i]) THEN << evs[i].id >> \o EventsToUpdate(evs, i + 1)
    ELSE EventsToUpdate(evs, i + 1)

checkAndUpdatePastEvents(st, t, evs) ==
    LET ids == EventsToUpdate(evs, 1)
        s1 == [st EXCEPT !.tasks[t].evs = Reconciled(evs),
                         !.tasks[t].at = now,
                         !.tasks[t].flipped = {ids[i] : i \in DOMAIN ids},
                         !.last.rec = TRUE, !.last.recIn = evs,
                         !.last.recOut = Reconciled(evs), !.last.recIds = ids,
                         !.last.recQueue = st.queue,
                         !.last.recHit = (st.tasks[t].path = "hit")]
    IN  IF Len(ids) > 0
        THEN [s1 EXCEPT
                !.queue = @ \o [i \in DOMAIN ids |->
                                  Req(t, "update", ids[i], [completed |-> TRUE])],
                !.tasks[t].pc = "marks",
                !.tasks[t].wait = Len(ids)]
        ELSE AfterReconcile(s1, t)

refreshEvents(st, t) ==
    IF ~st.isDBReady THEN RefreshReturn(st, t)
    ELSE LET cacheKey == IF st.selectedDate # Null THEN st.selectedDate ELSE AllKey
         IN  IF isCacheValid(st, cacheKey)
             THEN checkAndUpdatePastEvents(
                      [st EXCEPT !.tasks[t].path = "hit", !.tasks[t].key = cacheKey,
                                 !.last.path = "hit"],
                      t, st.cache[cacheKey].events)
             ELSE [st EXCEPT
                     !.queue = Append(@, Req(t, IF st.selectedDate # Null
                                                THEN "getByDate" ELSE "getAll",
                                             0, [date |-> st.selectedDate])),
                     !.tasks[t].pc = "query",
                     !.tasks[t].path = "miss",
                     !.tasks[t].key = cacheKey,
                     !.last.path = "miss",
                     !.last.query = TRUE]

\* -------------------------------------------------------- store operations
HasFreeSlot == \E t \in Slots : tasks[t].kind = "idle"
FreeSlot ==
    CHOOSE t \in Slots :
        tasks[t].kind = "idle" /\ \A u \in 1..(t - 1) : tasks[u].kind # "idle"

Spawn(st, t, kind, id) ==
    [st EXCEPT !.tasks[t] = [IdleTask EXCEPT !.kind = kind, !.id = id],
               !.last.kind = kind, !.last.id = id]

Await(st, t, op, id, arg, pc) ==
    [st EXCEPT !.queue = Append(@, Req(t, op, id, arg)), !.tasks[t].pc = pc]

NotReady(st) == [st EXCEPT !.last.notReady = TRUE]

\* the awaited Record Store call rejected before it issued a request
\* (validatePriority threw): the catch of the operation runs at once
Rejected(st, kind, msg) ==
    [SetError(st, msg) EXCEPT !.last.kind = kind, !.last.awaited = "mut",
                              !.last.ok = FALSE, !.last.msg = msg]

\* set({ loading: true, error: null })
Begin(st) == [st EXCEPT !.loading = TRUE, !.error = NoError]

initializeStore(st, t) ==
    Await([Spawn(st, t, "init", 0) EXCEPT !.loading = TRUE],
          t, "open", 0, NoArg, "open")

\* faulty variant: the store is marked ready and nothing is loaded
AfterInit_NoRefresh(st, t) ==
    Finish([st EXCEPT !.isDBReady = TRUE, !.loading = FALSE], t)

\* after await db.initDB()
AfterInit(st, t) ==
    refreshEvents([st EXCEPT !.isDBReady = TRUE, !.loading = FALSE], t)

setSelectedDate(st, t, date) ==
    refreshEvents([Spawn(st, t, "setDate", 0) EXCEPT
                      !.selectedDate = date, !.loading = TRUE], t)

\* faulty variant: the readiness guard is missing
fetchEvents_Unguarded(st, t) ==
    refreshEvents(Begin(Spawn(st, t, "fetch", 0)), t)

fetchEvents(st, t) ==
    IF ~st.isDBReady THEN NotReady(st)
    ELSE refreshEvents(Begin(Spawn(st, t, "fetch", 0)), t)

fetchEventsByDate(st, t, date) ==
    IF ~st.isDBReady THEN NotReady(st)
    ELSE refreshEvents([Begin(Spawn(st, t, "fetchByDate", 0)) EXCEPT
                           !.selectedDate = date], t)

addEvent(st, t, event) ==
    IF ~st.isDBReady THEN Escape(NotReady(st), ErrNotInit)
    ELSE IF ~validatePriority(event.priority)
         THEN Rejected(Begin(st), "add", ErrPriority)
         ELSE Await(Begin(Spawn(st, t, "add", 0)), t, "add", 0, event, "mut")

AfterAdd(st, t) == refreshEvents(invalidateCache(st), t)

updateEvent(st, t, id, updates) ==
    IF ~st.isDBReady THEN Escape(NotReady(st), ErrNotInit)
    ELSE IF "priority" \in DOMAIN updates /\ ~validatePriority(updates.priority)
         THEN Rejected(Begin(st), "update", ErrPriority)
         ELSE Await(Begin(Spawn(st, t, "update", id)), t, "update", id, updates, "mut")

AfterUpdate(st, t) ==
    refreshEvents(invalidateCache(CancelCheck(st, st.tasks[t].id)), t)

deleteEvent(st, t, id) ==
    IF ~st.isDBReady THEN Escape(NotReady(st), ErrNotInit)
    ELSE Await(CancelCheck([Begin(Spawn(st, t, "delete", id)) EXCEPT
                               !.tasks[t].cancelled = st.checks[id] # NoTimer],
                           id),
               t, "delete", id, NoArg, "mut")

AfterDelete(st, t) == refreshEvents(invalidateCache(st), t)

markEventAsCompleted(st, t, id, completed) ==
    IF ~st.isDBReady THEN Escape(NotReady(st), ErrNotInit)
    ELSE LET s1 == Begin(Spawn(st, t, "mark", id))
             s2 == IF completed
                   THEN CancelCheck([s1 EXCEPT !.tasks[t].cancelled =
                                                   st.checks[id] # NoTimer], id)
                   ELSE s1
         IN  Await(s2, t, "update", id, [completed |-> completed], "mut")

AfterMark(st, t) == refreshEvents(invalidateCache(st), t)

\* the callback handed to setTimeout by scheduleEventCheck, up to its
\* first await
TimerCallback(st, t, tm) ==
    Await([Spawn([st EXCEPT !.timers = @ \ {tm}], t, "timer", tm.id) EXCEPT
              !.tasks[t].armedFor = tm.at, !.last.armedFor = tm.at],
          t, "update", tm.id, [completed |-> TRUE], "mut")

\* the catch of a mutation whose Record Store call rejected; a timer the
\* operation cancelled before the call stays cancelled
MutationFail(st, t, msg) ==
    Finish(SetError([st EXCEPT !.last.cancelled = st.tasks[t].cancelled], msg), t)

\* the continuation of the operation in slot t once its request has
\* completed with result res
Resume(st, t, res) ==
    LET tk == st.tasks[t]
    IN  CASE tk.pc = "open" ->
                IF res.ok THEN AfterInit(st, t) ELSE Finish(SetError(st, res.msg), t)
          [] tk.pc = "mut" /\ tk.kind = "timer" ->
                IF res.ok THEN refreshEvents(st, t) ELSE Finish(Escape(st, res.msg), t)
          [] tk.pc = "mut" /\ tk.kind = "add" ->
                IF res.ok THEN AfterAdd(st, t) ELSE MutationFail(st, t, res.msg)
          [] tk.pc = "mut" /\ tk.kind = "update" ->
                IF res.ok THEN AfterUpdate(st, t) ELSE MutationFail(st, t, res.msg)
          [] tk.pc = "mut" /\ tk.kind = "delete" ->
                IF res.ok THEN AfterDelete(st, t) ELSE MutationFail(st, t, res.msg)
          [] tk.pc = "mut" /\ tk.kind = "mark" ->
                IF res.ok THEN AfterMark(st, t) ELSE MutationFail(st, t, res.msg)
          [] tk.pc = "query" ->
                IF res.ok THEN checkAndUpdatePastEvents(st, t, res.evs)
                ELSE RefreshFail(st, t, res.msg)
          [] tk.pc = "marks" ->
                IF ~res.ok THEN RefreshFail(Orphan(st, t), t, res.msg)
                ELSE IF tk.wait = 1
                     THEN AfterReconcile([st EXCEPT !.tasks[t].wait = 0], t)
                     ELSE [st EXCEPT !.tasks[t].wait = @ - 1]

\* ------------------------------------------------------------ Record Store
IsWrite(op) == op \in {"add", "update", "delete"}
IsRead(op) == op \in {"getAll", "getByDate"}

\* transactions on the object store run in the order they were created,
\* except that read-only transactions do not wait for one another; opening
\* the database waits for nothing
Conflict(a, b) ==
    \/ IsWrite(a.op) /\ (IsWrite(b.op) \/ IsRead(b.op))
    \/ IsRead(a.op) /\ IsWrite(b.op)

Eligible(i) == \A j \in 1..(i - 1) : ~Conflict(queue[j], queue[i])

Ok(recs, evs) == [ok |-> TRUE, msg |-> NoError, recs |-> recs, evs |-> evs]

\* the effect and the result of one request on the object store
Serve(req) ==
    CASE req.op = "open" -> Ok(records, << >>)
      [] req.op = "getAll" -> Ok(records, getAllEvents(records))
      [] req.op = "getByDate" -> Ok(records, getEventsByDate(records, req.arg.date))
      [] req.op = "add" -> Ok(dbAddEvent(records, nextId, req.arg, now), << >>)
      [] req.op = "update" ->
            LET r == dbUpdateEvent(records, req.id, req.arg, now)
            IN  [ok |-> r.ok, msg |-> r.msg, recs |-> r.recs, evs |-> << >>]
      [] req.op = "delete" -> Ok(dbDeleteEvent(records, req.id), << >>)

\* request.onerror: the request fails and leaves the object store alone
Fault == [ok |-> FALSE, msg |-> ErrStorage, recs |-> records, evs |-> << >>]

RemoveAt(q, i) == [j \in 1..(Len(q) - 1) |-> IF j < i THEN q[j] ELSE q[j + 1]]

\* ----------------------------------------------------------------- actions
\* inputs of the operations
Event(date, priority) ==
    [title |-> "t", description |-> "d", date |-> date, time |-> 0,
     priority |-> priority]

NewEvents == {Event(NearDate, 2), Event(FarDate, 2), Event(NearDate, 0)}
Updates == {[date |-> FarDate], [priority |-> 0]}
ViewDates == {NearDate}

\* what the browser's database may hold when the page is loaded
InitialStores ==
    {{}, {NewRecord(Event(NearDate, 2), 1, StartTime - ClockStep)}}

SameStore(st) ==
    /\ st.isDBReady = isDBReady /\ st.events = events /\ st.loading = loading
    /\ st.error = error /\ st.selectedDate = selectedDate /\ st.cache = cache
    /\ st.checks = scheduledChecks /\ st.timers = timers /\ st.queue = queue
    /\ st.tasks = tasks

\* the parts of the store closure a step has changed
Changed(st) ==
    {f \in {"isDBReady", "events", "loading", "error", "selectedDate", "cache",
            "checks", "timers", "queue", "tasks"} :
        CASE f = "isDBReady" -> st.isDBReady # isDBReady
          [] f = "events" -> st.events # events
          [] f = "loading" -> st.loading # loading
          [] f = "error" -> st.error # error
          [] f = "selectedDate" -> st.selectedDate # selectedDate
          [] f = "cache" -> st.cache # cache
          [] f = "checks" -> st.checks # scheduledChecks
          [] f = "timers" -> st.timers # timers
          [] f = "queue" -> st.queue # queue
          [] f = "tasks" -> st.tasks # tasks}

Commit(st) ==
    /\ isDBReady' = st.isDBReady
    /\ events' = st.events
    /\ loading' = st.loading
    /\ error' = st.error
    /\ selectedDate' = st.selectedDate
    /\ cache' = st.cache
    /\ scheduledChecks' = st.checks
    /\ timers' = st.timers
    /\ queue' = st.queue
    /\ tasks' = st.tasks
    /\ last' = [st.last EXCEPT
                    !.same = SameStore(st),
                    !.evSame = (st.events = events),
                    !.warm = \E k \in CacheKeys : isCacheValid(St("none"), k),
                    !.wasReady = isDBReady,
                    !.snapSame = /\ st.events = events /\ st.loading = loading
                                 /\ st.error = error
                                 /\ st.selectedDate = selectedDate
                                 /\ st.isDBReady = isDBReady,
                    !.changed = Changed(st)]

\* a call of a store operation by the UI
Call(st) ==
    /\ Commit(st)
    /\ nops' = nops + 1
    /\ UNCHANGED << records, nextId, now, ticks, nfaults >>

CanCall == nops < MaxOps /\ HasFreeSlot

Init ==
    /\ isDBReady = FALSE
    /\ events = << >>
    /\ loading = FALSE
    /\ error = NoError
    /\ selectedDate = Null
    /\ cache = EmptyCache
    /\ scheduledChecks = NoChecks
    /\ timers = {}
    /\ records \in InitialStores
    /\ nextId = Cardinality(records) + 1
    /\ queue = << >>
    /\ tasks = [t \in Slots |-> IdleTask]
    /\ now = StartTime
    /\ ticks = 0
    /\ nops = 0
    /\ nfaults = 0
    /\ last = NoLast

InitializeStore == CanCall /\ Call(initializeStore(St("initializeStore"), FreeSlot))

SetSelectedDate ==
    /\ CanCall
    /\ \E d \in ViewDates \cup {Null} :
          Call(setSelectedDate(St("setSelectedDate"), FreeSlot, d))

FetchEvents == CanCall /\ Call(fetchEvents(St("fetchEvents"), FreeSlot))

FetchEventsByDate ==
    /\ CanCall
    /\ \E d \in ViewDates :
          Call(fetchEventsByDate(St("fetchEventsByDate"), FreeSlot, d))

PendingAdds == Cardinality({i \in DOMAIN queue : queue[i].op = "add"})

AddEvent ==
    /\ CanCall
    /\ nextId + PendingAdds <= MaxId
    /\ \E e \in NewEvents : Call(addEvent(St("addEvent"), FreeSlot, e))

UpdateEvent ==
    /\ CanCall
    /\ \E id \in Ids, u \in Updates :
          Call(updateEvent(St("updateEvent"), FreeSlot, id, u))

DeleteEvent ==
    /\ CanCall
    /\ \E id \in Ids : Call(deleteEvent(St("deleteEvent"), FreeSlot, id))

MarkEventAsCompleted ==
    /\ CanCall
    /\ \E id \in Ids, c \in BOOLEAN :
          Call(markEventAsCompleted(St("markEventAsCompleted"), FreeSlot, id, c))

ClearError ==
    /\ nops < MaxOps
    /\ Call([St("clearError") EXCEPT !.error = NoError])

ClearCache ==
    /\ nops < MaxOps
    /\ Call(invalidateCache(St("clearCache")))

Cleanup ==
    /\ nops < MaxOps
    /\ Call(cleanup(St("cleanup")))

\* the host runs the callback of a timer that has come due
TimerFire ==
    /\ HasFreeSlot
    /\ \E tm \in timers :
          /\ now >= tm.due
          /\ Commit(TimerCallback(St("timerFire"), FreeSlot, tm))
    /\ UNCHANGED << records, nextId, now, ticks, nops, nfaults >>

\* one Record Store request completes (res its result) and the operation
\* that awaits it runs on
Complete(i, res) ==
    LET req == queue[i]
        s0 == [St("db") EXCEPT !.queue = RemoveAt(queue, i),
                               !.last.ok = res.ok, !.last.msg = res.msg,
                               !.last.wrote = (res.recs # records),
                               !.last.id = req.id]
        s1 == IF req.owner = 0 THEN s0
              ELSE Resume([s0 EXCEPT !.last.kind = tasks[req.owner].kind,
                                     !.last.awaited = tasks[req.owner].pc,
                                     !.last.path = tasks[req.owner].path,
                                     !.last.armedFor = tasks[req.owner].armedFor],
                          req.owner, res)
    IN  /\ Commit(s1)
        /\ records' = res.recs
        /\ nextId' = IF req.op = "add" /\ res.ok THEN nextId + 1 ELSE nextId

DbStep ==
    /\ \E i \in DOMAIN queue :
          /\ Eligible(i)
          /\ Complete(i, Serve(queue[i]))
    /\ UNCHANGED << now, ticks, nops, nfaults >>

DbFault ==
    /\ nfaults < MaxFaults
    /\ \E i \in DOMAIN queue :
          /\ Eligible(i)
          /\ Complete(i, Fault)
    /\ nfaults' = nfaults + 1
    /\ UNCHANGED << now, ticks, nops >>

Tick ==
    /\ ticks < MaxTicks
    /\ ticks' = ticks + 1
    /\ now' = now + ClockStep
    /\ last' = [NoLast EXCEPT !.op = "tick"]
    /\ UNCHANGED << isDBReady, events, loading, error, selectedDate, cache,
                    scheduledChecks, timers, records, nextId, queue, tasks,
                    nops, nfaults >>

Next ==
    \/ InitializeStore
    \/ SetSelectedDate
    \/ FetchEvents
    \/ FetchEventsByDate
    \/ AddEvent
    \/ UpdateEvent
    \/ DeleteEvent
    \/ MarkEventAsCompleted
    \/ ClearError
    \/ ClearCache
    \/ Cleanup
    \/ TimerFire
    \/ DbStep
    \/ DbFault
    \/ Tick

Spec == Init /\ [][Next]_vars

\* ------------------------------------------- the Record Store on its own
\* The methods of EventDatabase called one after another, each running its
\* transaction to the end before the next call; the store closure is idle.
MaxDbOps == 3
MaxDbId == 3

DbIds == 1..MaxDbId
Times == {0, 30}
Priorities == {0, 1, 2, 3, 4}

DbEvent(date, time, priority) ==
    [title |-> "t", description |-> "d", date |-> date, time |-> time,
     priority |-> priority]

DbNewEvents ==
    {DbEvent(d, tm, p) : d \in Dates, tm \in Times, p \in {0, 1, 3, 4}}

DbUpdates ==
    {[title |-> "t"], [title |-> "u"], [date |-> FarDate], [time |-> 0],
     [priority |-> 0], [priority |-> 3], [time |-> 30, priority |-> 3],
     [title |-> "t", description |-> "d"]}

DbNoLast ==
    [op |-> "init", id |-> 0, event |-> NoArg, updates |-> NoArg,
     date |-> Null, priority |-> Null, ok |-> TRUE, msg |-> NoError,
     before |-> {}, result |-> << >>]

DbFail(recs, msg) == [ok |-> FALSE, msg |-> msg, recs |-> recs]

\* EventDatabase.addEvent: validation, then the add transaction
db_addEvent(recs, id, event, t) ==
    IF ~validatePriority(event.priority) THEN DbFail(recs, ErrPriority)
    ELSE [ok |-> TRUE, msg |-> NoError, recs |-> dbAddEvent(recs, id, event, t)]

\* EventDatabase.updateEvent: validation of a priority that is given, then
\* the read-modify-write transaction
db_updateEvent(recs, id, updates, t) ==
    IF "priority" \in DOMAIN updates /\ ~validatePriority(updates.priority)
    THEN DbFail(recs, ErrPriority)
    ELSE dbUpdateEvent(recs, id, updates, t)

db_markEventAsCompleted(recs, id, completed, t) ==
    db_updateEvent(recs, id, [completed |-> completed], t)

\* index('priority').getAll(priority), sorted by date and time
getEventsByPriority(recs, priority) ==
    IF ~validatePriority(priority)
    THEN [ok |-> FALSE, msg |-> ErrPriority, evs |-> << >>]
    ELSE [ok |-> TRUE, msg |-> NoError,
          evs |-> SortBy({r \in recs : r.priority = priority}, TRUE)]

InitDb ==
    /\ isDBReady = FALSE
    /\ events = << >>
    /\ loading = FALSE
    /\ error = NoError
    /\ selectedDate = Null
    /\ cache = EmptyCache
    /\ scheduledChecks = NoChecks
    /\ timers = {}
    /\ records \in InitialStores
    /\ nextId = Cardinality(records) + 1
    /\ queue = << >>
    /\ tasks = [t \in Slots |-> IdleTask]
    /\ now = StartTime
    /\ ticks = 0
    /\ nops = 0
    /\ nfaults = 0
    /\ last = DbNoLast

StoreIdle ==
    UNCHANGED << isDBReady, events, loading, error, selectedDate, cache,
                 scheduledChecks, timers, queue, tasks, now, ticks, nfaults >>

\* a call that may write: its result res, what it was called with in l
DbWrite(l, res) ==
    /\ nops < MaxDbOps
    /\ nops' = nops + 1
    /\ records' = res.recs
    /\ last' = [l EXCEPT !.ok = res.ok, !.msg = res.msg, !.before = records]
    /\ StoreIdle

\* a call that only reads
DbRead(l, res) ==
    /\ last' = [l EXCEPT !.ok = res.ok, !.msg = res.msg, !.before = records,
                         !.result = res.evs]
    /\ UNCHANGED << records, nextId, nops >>
    /\ StoreIdle

DbAddEvent ==
    /\ nextId <= MaxDbId
    /\ \E e \in DbNewEvents :
          LET res == db_addEvent(records, nextId, e, now)
          IN  /\ DbWrite([DbNoLast EXCEPT !.op = "addEvent", !.event = e,
                                          !.id = nextId], res)
              /\ nextId' = IF res.ok THEN nextId + 1 ELSE nextId

DbUpdateEvent ==
    \E id \in DbIds, u \in DbUpdates :
        /\ DbWrite([DbNoLast EXCEPT !.op = "updateEvent", !.id = id,
                                    !.updates = u],
                   db_updateEvent(records, id, u, now))
        /\ UNCHANGED nextId

DbMarkEventAsCompleted ==
    \E id \in DbIds, c \in BOOLEAN :
        /\ DbWrite([DbNoLast EXCEPT !.op = "markEventAsCompleted", !.id = id,
                                    !.updates = [completed |-> c]],
                   db_markEventAsCompleted(records, id, c, now))
        /\ UNCHANGED nextId

DbDeleteEvent ==
    \E id \in DbIds :
        /\ DbWrite([DbNoLast EXCEPT !.op = "deleteEvent", !.id = id],
                   [ok |-> TRUE, msg |-> NoError,
                    recs |-> dbDeleteEvent(records, id)])
        /\ UNCHANGED nextId

DbGetAllEvents ==
    DbRead([DbNoLast EXCEPT !.op = "getAllEvents"],
           [ok |-> TRUE, msg |-> NoError, evs |-> getAllEvents(records)])

DbGetEventsByDate ==
    \E d \in Dates :
        DbRead([DbNoLast EXCEPT !.op = "getEventsByDate", !.date = d],
               [ok |-> TRUE, msg |-> NoError, evs |-> getEventsByDate(records, d)])

DbGetEventsByPriority ==
    \E p \in Priorities :
        DbRead([DbNoLast EXCEPT !.op = "getEventsByPriority", !.priority = p],
               getEventsByPriority(records, p))

\* time passes between two calls
DbTick ==
    /\ ticks < MaxTicks
    /\ ticks' = ticks + 1
    /\ now' = now + ClockStep
    /\ last' = [DbNoLast EXCEPT !.op = "tick"]
    /\ UNCHANGED << isDBReady, events, loading, error, selectedDate, cache,
                    scheduledChecks, timers, records, nextId, queue, tasks,
                    nops, nfaults >>

NextDb ==
    \/ DbAddEvent
    \/ DbUpdateEvent
    \/ DbMarkEventAsCompleted
    \/ DbDeleteEvent
    \/ DbGetAllEvents
    \/ DbGetEventsByDate
    \/ DbGetEventsByPriority
    \/ DbTick

SpecDb == InitDb /\ [][NextDb]_vars

\* ------------------------------------------------------------------ claims
Mutations == {"add", "update", "delete", "mark"}
MutationCalls == {"addEvent", "updateEvent", "deleteEvent", "markEventAsCompleted"}
FetchCalls == {"fetchEvents", "fetchEventsByDate"}
CurrentKey == IF selectedDate # Null THEN selectedDate ELSE AllKey

\* C1: whenever refreshEvents publishes a list (from the cache or from the
\* Record Store), no published event is uncompleted with a date+time before
\* the instant of the refresh's reconcile pass, and every record the pass
\* flipped is completed in the Record Store when the refresh ends.
C1_PublishedReconciled ==
    last.pub =>
        /\ \A i \in DOMAIN events :
              ~(~events[i].completed /\ DateTime(events[i]) < last.pubAt)
        /\ \A id \in last.flipped :
              \E r \in records : r.id = id /\ r.completed

C1_Witness ==
    /\ last.pub /\ last.path = "hit" /\ last.flipped # {}
    /\ \E i \in DOMAIN events : events[i].id \in last.flipped

\* C2: when the Record Store call of a mutation succeeds, the cache is empty
\* before the mutation's own refresh starts, so that refresh takes the
\* cache-miss path and issues a Record Store query, whatever TTL the removed
\* entries had left.
C2_MutationInvalidates ==
    (last.op = "db" /\ last.awaited = "mut" /\ last.ok /\ last.kind \in Mutations)
        => (cache = EmptyCache /\ last.path = "miss" /\ last.query)

C2_Witness ==
    /\ last.op = "db" /\ last.awaited = "mut" /\ last.ok /\ last.kind \in Mutations
    /\ last.warm /\ last.query

\* C3 (as claimed): a fetchEvents call that finds a cache entry younger than
\* the TTL publishes, in the call, the cached snapshot unchanged and issues
\* no Record Store request.
C3_Original ==
    (last.op = "fetchEvents" /\ isDBReady
        /\ cache[CurrentKey].timestamp # Null
        /\ now - cache[CurrentKey].timestamp < Ms(5000))
        => (last.pub /\ events = cache[CurrentKey].events /\ ~last.query)

\* C3 (amended): a fetchEvents call that finds a cache entry younger than
\* 5000 ms issues no Record Store query; it publishes the cached snapshot
\* itself when no cached event has fallen due, and otherwise publishes
\* nothing in the call but issues one update per cached event fallen due
\* and holds the snapshot with those events completed for publication once
\* the updates have succeeded.  A call that finds no entry, or one aged
\* 5000 ms or more, issues a new query.
C3_CacheTTL ==
    (last.op = "fetchEvents" /\ isDBReady) =>
        LET entry == cache[CurrentKey]
            due == {i \in DOMAIN entry.events :
                       /\ ~entry.events[i].completed
                       /\ DateTime(entry.events[i]) < now}
        IN  IF entry.timestamp # Null /\ now - entry.timestamp < Ms(5000)
            THEN /\ ~last.query
                 /\ due = {} => (last.pub /\ events = entry.events)
                 /\ due # {} =>
                       /\ ~last.pub
                       /\ \E t \in Slots :
                             /\ tasks[t].kind = "fetch"
                             /\ tasks[t].pc = "marks"
                             /\ tasks[t].evs =
                                   [i \in DOMAIN entry.events |->
                                      IF i \in due
                                      THEN [entry.events[i] EXCEPT !.completed = TRUE]
                                      ELSE entry.events[i]]
                       /\ \A i \in due :
                             \E j \in DOMAIN queue :
                                /\ queue[j].op = "update"
                                /\ queue[j].id = entry.events[i].id
                                /\ queue[j].arg = [completed |-> TRUE]
            ELSE last.query /\ ~last.pub

C3_Witness ==
    /\ last.op = "fetchEvents" /\ isDBReady
    /\ cache[CurrentKey].timestamp # Null
    /\ now - cache[CurrentKey].timestamp < Ms(5000)
    /\ ~last.pub /\ ~last.query

C3_WitnessExpired ==
    /\ last.op = "fetchEvents" /\ isDBReady
    /\ cache[CurrentKey].timestamp # Null
    /\ now - cache[CurrentKey].timestamp = Ms(5000)
    /\ last.query

\* C4: in every reachable state there is at most one live timer per event id.
C4_OneTimerPerId ==
    \A a \in timers : \A b \in timers : a.id = b.id => a = b

\* C5: a timer armed by scheduleEventCheck never fires before the date+time of
\* the event it was armed for, whatever the delay.
C5_NeverFiresEarly ==
    last.op = "timerFire" => now >= last.armedFor

\* C6: a timer that fires at the date+time it was armed for never makes the
\* Record Store hold completed=true for an event whose stored date+time (moved
\* later by updateEvent) has not yet arrived.
C6_NoCompletionAtOldTime ==
    ~ /\ last.op = "db" /\ last.kind = "timer" /\ last.awaited = "mut"
      /\ last.wrote
      /\ last.armedFor <= now
      /\ \E r \in records : r.id = last.id /\ r.completed /\ DateTime(r) > now

\* C7: when an update issued by the reconcile pass rejects, the refresh still
\* publishes the reconciled list with loading=false, puts nothing into the
\* error field and does not reject.
C7_ReconcileFailureSwallowed ==
    (last.op = "db" /\ last.awaited = "marks" /\ ~last.ok)
        => (last.pub /\ ~loading /\ last.err = NoError /\ last.rej = NoError)

\* C8: any failure of a storage call made during refreshEvents ends with the
\* message in the error field and loading=false, and never with a rejection
\* that leaves the store uncaught.
C8_RefreshFailurePublished ==
    (last.op = "db" /\ last.awaited \in {"query", "marks"} /\ ~last.ok)
        => (error = last.msg /\ ~loading /\ last.rej = NoError)

\* C9: when the Record Store call of a mutation rejects, the operation does
\* not reject, the error field holds the rejection's message, loading is
\* false and the published events list is left as it was.
C9_MutationFailure ==
    /\ (last.awaited = "mut" /\ ~last.ok /\ last.kind \in Mutations)
          => (error = last.msg /\ ~loading /\ last.rej = NoError /\ last.evSame
              /\ last.err = last.msg /\ ~last.pub)
    /\ last.op \in MutationCalls => (last.evSame /\ ~last.pub)

C9_Witness ==
    /\ last.awaited = "mut" /\ ~last.ok /\ last.kind \in Mutations
    /\ last.msg = ErrNotFound /\ events # << >>

\* C10: while isReady is false the four mutations reject with the
\* not-initialized error and the two fetches return without effect; none
\* issues a Record Store call or changes the snapshot, the cache or the timer
\* registry.
C10_NotReady ==
    (~isDBReady /\ last.op \in MutationCalls \cup FetchCalls) =>
        /\ last.same
        /\ last.op \in MutationCalls => last.rej = ErrNotInit
        /\ last.op \in FetchCalls => last.rej = NoError

C10_Witness ==
    /\ ~isDBReady /\ last.op \in MutationCalls /\ last.rej = ErrNotInit
    /\ error # NoError

\* C12: when the Record Store call of updateEvent(id, updates) or of
\* markEventAsCompleted(id, completed) finds no record under id, the call
\* fails with the not-found error, the error field holds that message with
\* loading false, the operation does not reject, and the Record Store is
\* exactly what it was (no record created, none modified).
C12_NotFound ==
    (/\ last.op = "db" /\ last.awaited = "mut" /\ last.kind \in {"update", "mark"}
     /\ ~HasRecord(records, last.id) /\ last.msg # ErrStorage)
        => /\ ~last.ok /\ last.msg = ErrNotFound
           /\ error = ErrNotFound /\ ~loading /\ last.rej = NoError
           /\ ~last.wrote /\ last.evSame

C12_Witness ==
    /\ last.op = "db" /\ last.awaited = "mut" /\ last.kind = "mark"
    /\ ~HasRecord(records, last.id) /\ records # {}
    /\ error = ErrNotFound

\* C13: when the Record Store call of deleteEvent(id) finds no record under
\* id, the operation fails: the error field holds an error and the published
\* events list is left as it was.
C13_DeleteMissingFails ==
    (/\ last.op = "db" /\ last.awaited = "mut" /\ last.kind = "delete"
     /\ ~last.wrote /\ ~HasRecord(records, last.id) /\ last.msg # ErrStorage)
        => (~last.ok /\ error # NoError /\ last.evSame)

\* C17: when the open request of initializeStore succeeds, isDBReady is true
\* and a refresh is started in the same step; when it fails, the error field
\* holds the request's message, loading is false, isDBReady is what it was
\* (false unless an earlier initializeStore had succeeded), and the step
\* starts no refresh, issues no Record Store request and publishes no list.
C17_InitializeStore ==
    (last.op = "db" /\ last.awaited = "open") =>
        IF last.ok
        THEN isDBReady /\ last.path \in {"hit", "miss"}
        ELSE /\ error = last.msg /\ last.msg # NoError /\ ~loading
             /\ isDBReady = last.wasReady
             /\ last.path = "none" /\ ~last.query /\ ~last.pub
             /\ last.rej = NoError

C17_Witness ==
    /\ last.op = "db" /\ last.awaited = "open" /\ ~last.ok
    /\ ~isDBReady /\ error = ErrStorage /\ records # {}

C17_WitnessOpened ==
    /\ last.op = "db" /\ last.awaited = "open" /\ last.ok
    /\ ~last.wasReady /\ isDBReady /\ last.query

\* C18: cleanup cancels every armed timer: after the call no timer is live
\* (so none armed before it can fire later) and the timer registry is empty;
\* events, loading, error, selectedDate and isDBReady are what they were.
C18_CleanupCancelsAll ==
    last.op = "cleanup" =>
        /\ timers = {}
        /\ scheduledChecks = NoChecks
        /\ last.snapSame

Quiescent == queue = << >> /\ \A t \in Slots : tasks[t].kind = "idle"

\* C19: whenever the store is ready and no operation is in flight, every
\* published event that is not completed and whose date+time is in the
\* future has a live timer registered in scheduledChecks.
C19_FutureEventsArmed ==
    (isDBReady /\ Quiescent) =>
        \A i \in DOMAIN events :
            (~events[i].completed /\ DateTime(events[i]) > now) =>
                \E tm \in timers :
                    /\ tm.id = events[i].id
                    /\ scheduledChecks[tm.id] = tm.h

\* C20 (its deleteEvent clause): once a deleteEvent(id) has succeeded and
\* every operation in flight has finished, no live timer exists for id; ids
\* are never handed out twice, so a timer whose id is not in the Record Store
\* is a timer of a deleted event.
C20_NoTimerAfterDelete ==
    Quiescent => \A tm \in timers : HasRecord(records, tm.id)

\* a write to the Record Store that no user call asked for: an update
\* issued by the reconcile pass or by a timer callback
AutoWrite ==
    /\ last.op = "db" /\ last.wrote
    /\ (last.awaited = "marks" \/ last.kind \in {"timer", "none"})

\* C21: under any interleaving, a write to the Record Store that is not the
\* effect of a user-issued add, update, delete or complete call is an
\* auto-completion: it leaves the record completed, and the record's stored
\* date+time is at or before the time of the write.
C21_AutoCompletionOnlyWhenDue ==
    AutoWrite =>
        \E r \in records : r.id = last.id /\ r.completed /\ DateTime(r) <= now

\* C22: a stored record's completed flag goes from true to false only in
\* the step that serves the update of a markEventAsCompleted call (which
\* writes completed=false only when called with false); no other step, of
\* addEvent, updateEvent, deleteEvent, a refresh, its reconcile pass or a
\* timer callback, turns a completed record back to not completed.
C22_CompletedMonotonic ==
    [][\A r \in records : \A q \in records' :
          (q.id = r.id /\ r.completed /\ ~q.completed) =>
              (last'.op = "db" /\ last'.kind = "mark" /\ last'.awaited = "mut"
               /\ last'.id = r.id)]_vars

C22_Witness ==
    /\ last.op = "db" /\ last.kind = "mark" /\ last.awaited = "mut" /\ last.wrote
    /\ \E r \in records : r.id = last.id /\ ~r.completed /\ r.updated_at = now

C22_WitnessUpdate ==
    /\ last.op = "db" /\ last.kind = "update" /\ last.awaited = "mut" /\ last.wrote
    /\ \E r \in records : r.id = last.id /\ r.completed /\ r.updated_at = now

IdsOf(recs) == {r.id : r \in recs}

UniqueIds ==
    /\ \A r \in records : \A q \in records : r.id = q.id => r = q
    /\ \A i \in DOMAIN events : \A j \in DOMAIN events :
          events[i].id = events[j].id => i = j

\* the step serves an update request (of updateEvent, markEventAsCompleted,
\* a timer callback or the reconcile pass)
UpdateServed ==
    /\ last'.op = "db"
    /\ \/ last'.awaited = "marks"
       \/ last'.kind = "none"
       \/ last'.awaited = "mut" /\ last'.kind \in {"update", "mark", "timer"}

\* C23: in every reachable state no two records of the Record Store and no
\* two events of the published list share an id, and a step that serves an
\* update leaves the ids of the Record Store as they were: update never
\* changes the id of a record.
C23_IdUniqueImmutable ==
    /\ []UniqueIds
    /\ [][UpdateServed => IdsOf(records') = IdsOf(records)]_vars

C23_Witness ==
    /\ last.op = "db" /\ last.kind = "update" /\ last.awaited = "mut" /\ last.wrote
    /\ Cardinality(records) = 2 /\ Len(events) = 2

\* C24: when the cache-miss path of a refresh hands its list to
\* scheduleEventCheck, no timer is armed for an event that is completed or
\* whose date+time is less than or equal to now, the boundary date+time = now
\* included.
C24_NoTimerAtOrBeforeNow ==
    (last.pub /\ last.path = "miss") =>
        \A i \in DOMAIN events :
            (events[i].completed \/ DateTime(events[i]) <= now) =>
                events[i].id \notin last.armed

TimerCallbackRunning(id) ==
    \E t \in Slots : tasks[t].kind = "timer" /\ tasks[t].id = id

\* C25: once the callback of a fired timer has ended, with or without a
\* failure, the registry holds no entry of a timer that has fired (every
\* entry is the handle of a live timer unless a callback for its id is still
\* running), and the callback's scheduledChecks.delete never removes the
\* registration of a timer that is still live.
C25_CallbackUnregistersItself ==
    /\ ~last.stole
    /\ \A id \in Ids :
          (scheduledChecks[id] # NoTimer /\ ~TimerCallbackRunning(id)) =>
              \E tm \in timers : tm.h = scheduledChecks[id]

\* C26: in every reachable state the cache entry under a date key D holds
\* only events whose date is D; a refresh on the cache-miss path stores the
\* list it publishes, stamped now, under the key of the selectedDate it read
\* when it started (a date key only if every event of the list has that
\* date), also when selectedDate has changed while the refresh was suspended
\* on the Record Store.
C26_CacheKeyOfStart ==
    /\ \A d \in Dates : \A i \in DOMAIN cache[d].events :
          cache[d].events[i].date = d
    /\ (last.pub /\ last.path = "miss") =>
          \E k \in CacheKeys :
              /\ cache[k] = [timestamp |-> now, events |-> events]
              /\ k # AllKey => \A i \in DOMAIN events : events[i].date = k

C26_Witness ==
    /\ last.pub /\ last.path = "miss"
    /\ selectedDate = NearDate
    /\ \E i \in DOMAIN events : events[i].date = FarDate
    /\ cache[AllKey] = [timestamp |-> now, events |-> events]
    /\ cache[NearDate].timestamp = Null

\* C27: clearError sets the error field to null and changes nothing else;
\* clearCache empties the cache and changes nothing else (no published field,
\* no timer, no registry entry); neither issues a Record Store request; and a
\* fetch that finds the cache empty queries the Record Store.
C27_ClearErrorClearCache ==
    /\ last.op = "clearError" => (error = NoError /\ last.changed \subseteq {"error"})
    /\ last.op = "clearCache" => (cache = EmptyCache /\ last.changed \subseteq {"cache"})
    /\ (last.op \in FetchCalls /\ isDBReady /\ cache = EmptyCache) =>
          (last.query /\ last.path = "miss")

C27_Witness ==
    /\ last.op = "clearCache" /\ last.changed = {"cache"}
    /\ timers # {} /\ events # << >>

C27_WitnessError ==
    /\ last.op = "clearError" /\ last.changed = {"error"} /\ events # << >>

C27_WitnessFetch ==
    /\ last.op \in FetchCalls /\ isDBReady /\ cache = EmptyCache
    /\ events # << >> /\ Quiescent = FALSE /\ nops = 3

\* C28: an operation that finishes successfully leaves the error field
\* null, setSelectedDate included (here: a call that publishes its list in
\* the call itself), and an operation that finishes with a failure of its
\* storage call leaves the failure's message in the error field.
C28_ErrorSuperseded ==
    /\ (last.op \in {"setSelectedDate"} \cup FetchCalls /\ last.pub)
          => error = NoError
    /\ (last.op = "db" /\ ~last.ok /\ last.kind # "none")
          => error = last.msg

\* the indices of a list the reconcile pass has to flip at the current time
DueIndices(evs) ==
    {i \in DOMAIN evs : ~evs[i].completed /\ DateTime(evs[i]) < now}

\* C29: the reconcile pass returns a list of the same length, ids and order
\* as its input, in which an event differs from its input only by completed
\* set to true, exactly when the input had completed = false and date+time
\* strictly before now; it issues one update(id, {completed: true}) per
\* flipped id, in list order, and no other request; and on the cache-hit
\* path, where its input is the cached snapshot, the cache is left as it was.
C29_ReconcilePass ==
    last.rec =>
      LET in == last.recIn
          out == last.recOut
          ids == last.recIds
      IN  /\ Len(out) = Len(in)
          /\ \A i \in DOMAIN in :
                /\ out[i].id = in[i].id
                /\ out[i] = IF i \in DueIndices(in)
                            THEN [in[i] EXCEPT !.completed = TRUE]
                            ELSE in[i]
          /\ Len(ids) = Cardinality(DueIndices(in))
          /\ {ids[j] : j \in DOMAIN ids} = {in[i].id : i \in DueIndices(in)}
          /\ \A j, k \in DOMAIN ids :
                j < k => \E i, m \in DueIndices(in) :
                            i < m /\ in[i].id = ids[j] /\ in[m].id = ids[k]
          /\ Len(queue) = Len(last.recQueue) + Len(ids)
          /\ SubSeq(queue, 1, Len(last.recQueue)) = last.recQueue
          /\ \A j \in DOMAIN ids :
                LET rq == queue[Len(last.recQueue) + j]
                IN  /\ rq.op = "update"
                    /\ rq.id = ids[j]
                    /\ rq.arg = [completed |-> TRUE]
          /\ last.recHit =>
                /\ "cache" \notin last.changed
                /\ \E k \in CacheKeys : cache[k].events = in

\* a pass over a list with a due event and an event that is not due
C29_Witness ==
    /\ last.rec
    /\ DueIndices(last.recIn) # {}
    /\ DOMAIN last.recIn \ DueIndices(last.recIn) # {}

\* a pass that meets an uncompleted event whose date and time equal now
C29_WitnessBoundary ==
    /\ last.rec
    /\ \E i \in DOMAIN last.recIn :
          ~last.recIn[i].completed /\ DateTime(last.recIn[i]) = now

\* a pass over the cached snapshot that flips an event
C29_WitnessCached ==
    last.rec /\ last.recHit /\ DueIndices(last.recIn) # {}

\* the Record Store query for the current view
CurrentView ==
    IF selectedDate = Null THEN getAllEvents(records)
    ELSE getEventsByDate(records, selectedDate)

\* a published event is the reconciled form of a record: the same fields,
\* with completed allowed to differ only once the record's time has passed
ReconciledFrom(event, r) ==
    /\ event.id = r.id
    /\ event.title = r.title
    /\ event.description = r.description
    /\ event.date = r.date
    /\ event.time = r.time
    /\ event.priority = r.priority
    /\ (event.completed = r.completed \/ DateTime(r) < now)

\* C30: whenever the store is ready and no operation, refresh or timer
\* callback is in flight, the published list is the reconciled result of the
\* Record Store query for the current view: all records when selectedDate is
\* absent, the records of selectedDate otherwise. Stated for the runs in
\* which no storage request has failed and no error is shown.
C30_PublishedIsCurrentView ==
    (isDBReady /\ Quiescent /\ error = NoError /\ nfaults = 0) =>
        /\ Len(events) = Len(CurrentView)
        /\ \A i \in DOMAIN events : ReconciledFrom(events[i], CurrentView[i])

\* the Record Store query behind a cache key
ViewOf(k) ==
    IF k = AllKey THEN getAllEvents(records) ELSE getEventsByDate(records, k)

\* the fields of a record that only the four mutations write
SameButCompleted(event, r) ==
    /\ event.id = r.id
    /\ event.title = r.title
    /\ event.description = r.description
    /\ event.date = r.date
    /\ event.time = r.time
    /\ event.priority = r.priority

\* C31: a cache entry that is still within its TTL holds a snapshot read
\* from the Record Store after the most recent successful mutation: it lists
\* the records the query of its key returns now, in the same order, with the
\* fields that only mutations write (completed, which the reconcile pass and
\* the timers also write, is left out of the comparison).
C31_CacheNotStale ==
    \A k \in CacheKeys :
        (cache[k].timestamp # Null /\ now - cache[k].timestamp < Ms(CACHE_DURATION))
          => /\ Len(cache[k].events) = Len(ViewOf(k))
             /\ \A i \in DOMAIN cache[k].events :
                   SameButCompleted(cache[k].events[i], ViewOf(k)[i])

\* C32: when the Record Store call of a mutation rejects, the operation has
\* cancelled no timer before the call, and the step that handles the
\* rejection changes neither the timer registry, nor the timers, nor the
\* cache.
C32_FailedMutationKeepsTimersAndCache ==
    (last.awaited = "mut" /\ ~last.ok /\ last.kind \in Mutations)
        => /\ ~last.cancelled
           /\ last.changed \cap {"checks", "timers", "cache"} = {}

\* C33: loading is false whenever no operation is in flight, so that every
\* operation that set loading to true has set it back to false by the time
\* its last Record Store call has returned; setSelectedDate called before
\* the store is ready and operations after a failed initializeStore included.
C33_LoadingFalseWhenIdle == Quiescent => ~loading

\* C34: once isDBReady is true it is true in every later state, whatever
\* operation or Record Store result follows, and the published events list
\* is non-empty only in states where isDBReady is true.
C34_ReadyIsStable ==
    /\ [](events # << >> => isDBReady)
    /\ [][isDBReady => isDBReady']_vars

\* a repeated initializeStore whose open fails on a ready store that shows
\* a list
C34_Witness ==
    /\ last.op = "db" /\ last.awaited = "open" /\ ~last.ok /\ last.wasReady
    /\ events # << >> /\ isDBReady

\* a failed mutation on a ready store that shows a list
C34_WitnessMutation ==
    /\ last.awaited = "mut" /\ ~last.ok /\ last.kind \in Mutations
    /\ last.wasReady /\ events # << >> /\ isDBReady

\* cleanup on a ready store that shows a list
C34_WitnessCleanup ==
    last.op = "cleanup" /\ last.wasReady /\ events # << >> /\ isDBReady

\* (date, time) of a is not after (date, time) of b
NotAfter(a, b) == a.date < b.date \/ (a.date = b.date /\ a.time <= b.time)

Ascending(seq) ==
    \A i \in DOMAIN seq : \A j \in DOMAIN seq : i < j => NotAfter(seq[i], seq[j])

\* C35: in every reachable state the published events list is sorted
\* ascending by (date, time), and so is every cached list: the reconcile pass
\* and the cache round trip keep the order in which the Record Store
\* returned the events.
C35_PublishedSorted ==
    /\ Ascending(events)
    /\ \A k \in CacheKeys : Ascending(cache[k].events)

\* a published list whose order by (date, time) is not its key order
C35_Witness ==
    /\ last.pub
    /\ Len(events) >= 2
    /\ events[1].id > events[2].id
    /\ events[1].date < events[2].date

\* such a list published from the cache
C35_WitnessCached ==
    /\ last.pub /\ last.path = "hit"
    /\ Len(events) >= 2
    /\ events[1].id > events[2].id

\* such a list published after the reconcile pass has flipped an event
C35_WitnessReconciled ==
    /\ last.pub /\ last.flipped # {}
    /\ Len(events) >= 2
    /\ events[1].id > events[2].id

\* --------------------------------------------- claims on the Record Store
\* the priority an insert or an update was called with, if any
GivenPriority ==
    IF last.op = "addEvent" THEN {last.event.priority}
    ELSE IF last.op = "updateEvent" /\ "priority" \in DOMAIN last.updates
         THEN {last.updates.priority}
         ELSE {}

ValidPriorities == {1, 2, 3}

\* C11 (as claimed): insert and update with a priority outside {1,2,3} fail
\* with the invalid-priority error and leave the Record Store unchanged, every
\* stored record has a priority in {1,2,3}, and insert and update with a
\* priority in {1,2,3} always succeed.
C11_Original ==
    /\ \A r \in records : r.priority \in ValidPriorities
    /\ \A p \in GivenPriority :
          IF p \in ValidPriorities THEN last.ok
          ELSE ~last.ok /\ last.msg = ErrPriority /\ records = last.before

\* C11 (amended): insert and update with a priority outside {1,2,3} fail with
\* the invalid-priority error and leave the Record Store unchanged, and every
\* stored record has a priority in {1,2,3}; with a priority in {1,2,3} neither
\* fails with the invalid-priority error, insert succeeds, and update
\* succeeds exactly when the id is in the Record Store and otherwise fails
\* with the not-found error and writes nothing.
C11_PriorityValidation ==
    /\ \A r \in records : r.priority \in ValidPriorities
    /\ \A p \in GivenPriority :
          IF p \in ValidPriorities
          THEN /\ last.msg # ErrPriority
               /\ last.op = "addEvent" => last.ok /\ records # last.before
               /\ last.op = "updateEvent" =>
                     /\ last.ok <=> HasRecord(last.before, last.id)
                     /\ ~last.ok => last.msg = ErrNotFound /\ records = last.before
          ELSE ~last.ok /\ last.msg = ErrPriority /\ records = last.before

C11_Witness ==
    /\ last.op = "updateEvent" /\ HasRecord(last.before, last.id)
    /\ \E p \in GivenPriority : p \notin ValidPriorities
    /\ ~last.ok /\ Cardinality(records) >= 2

Range(seq) == {seq[i] : i \in DOMAIN seq}

\* C14: for every valid CreateEvent e, getAllEvents() after addEvent(e)
\* returns exactly one record more than getAllEvents() before it, every
\* earlier record still among them; the new record equals e in title,
\* description, date, time and priority, carries an id no other record has,
\* completed=false, created_at set and updated_at null.
C14_AddRoundTrip ==
    (last.op = "addEvent" /\ last.event.priority \in ValidPriorities) =>
        LET before == getAllEvents(last.before)
            after == getAllEvents(records)
            new == {i \in DOMAIN after : after[i] \notin Range(before)}
        IN  /\ last.ok
            /\ Len(after) = Len(before) + 1
            /\ Range(before) \subseteq Range(after)
            /\ Cardinality(new) = 1
            /\ \A i \in new :
                  /\ after[i].title = last.event.title
                  /\ after[i].description = last.event.description
                  /\ after[i].date = last.event.date
                  /\ after[i].time = last.event.time
                  /\ after[i].priority = last.event.priority
                  /\ after[i].completed = FALSE
                  /\ after[i].created_at = now
                  /\ after[i].updated_at = Null
                  /\ \A j \in DOMAIN after : after[j].id = after[i].id => j = i
                  /\ \A r \in last.before : r.id # after[i].id

C14_Witness ==
    /\ last.op = "addEvent" /\ last.ok
    /\ Cardinality(last.before) = 2 /\ Cardinality(records) = 3
    /\ \E r \in last.before : r.id # 1 /\ r.date = last.event.date /\ r.time = last.event.time

UpdateCalls == {"updateEvent", "markEventAsCompleted"}
RecordFields == {"title", "description", "date", "time", "priority", "completed"}

\* C15: an update of an existing record sets updated_at (to the instant of
\* the call) and the named fields when at least one named field differs
\* from the stored value, every other field and record left alone; when
\* every named field equals the stored value the whole record, updated_at
\* included, and the whole Record Store are left unchanged.
C15_UpdatedAt ==
    (/\ last.op \in UpdateCalls /\ HasRecord(last.before, last.id)
     /\ last.msg # ErrPriority) =>
        LET old == RecordOf(last.before, last.id)
            named == DOMAIN last.updates
            changed == \E k \in named : old[k] # last.updates[k]
        IN  /\ last.ok
            /\ HasRecord(records, last.id)
            /\ records \ {RecordOf(records, last.id)} = last.before \ {old}
            /\ changed =>
                  LET new == RecordOf(records, last.id)
                  IN  /\ new.updated_at = now
                      /\ new.created_at = old.created_at
                      /\ \A k \in named : new[k] = last.updates[k]
                      /\ \A k \in RecordFields \ named : new[k] = old[k]
            /\ ~changed => records = last.before

C15_Witness ==
    /\ last.op = "updateEvent" /\ last.ok /\ HasRecord(last.before, last.id)
    /\ records = last.before
    /\ RecordOf(records, last.id).updated_at \notin {Null, now}

C15_WitnessChanged ==
    /\ last.op = "updateEvent" /\ last.ok /\ HasRecord(last.before, last.id)
    /\ RecordOf(last.before, last.id).updated_at \notin {Null, now}
    /\ RecordOf(records, last.id).updated_at = now

\* seq lists exactly the records of S, each once
Lists(seq, S) == Range(seq) = S /\ Len(seq) = Cardinality(S)

\* C16: in every Record Store state getAllEvents() returns all records
\* sorted ascending by (date, time), getEventsByDate(d) returns exactly the
\* records with date d sorted ascending by time, and getEventsByPriority(p),
\* p a Priority, returns exactly the records with priority p sorted
\* ascending by (date, time).
C16_SortedQueries ==
    /\ last.op = "getAllEvents" =>
          last.ok /\ Lists(last.result, records) /\ Ascending(last.result)
    /\ last.op = "getEventsByDate" =>
          /\ last.ok
          /\ Lists(last.result, {r \in records : r.date = last.date})
          /\ Ascending(last.result)
    /\ (last.op = "getEventsByPriority" /\ last.priority \in ValidPriorities) =>
          /\ last.ok
          /\ Lists(last.result, {r \in records : r.priority = last.priority})
          /\ Ascending(last.result)

C16_Witness ==
    /\ last.op = "getEventsByPriority" /\ Len(last.result) = 2
    /\ Cardinality(records) = 3
    /\ last.result[1].id > last.result[2].id
    /\ last.result[1].date = last.result[2].date

C16_WitnessAll ==
    /\ last.op = "getAllEvents" /\ Len(last.result) = 3
    /\ last.result[1].id > last.result[3].id

C16_WitnessByDate ==
    /\ last.op = "getEventsByDate" /\ Len(last.result) = 2
    /\ Cardinality(records) = 3
    /\ last.result[1].id > last.result[2].id

====
